---- MODULE Spec2Model ----
(***************************************************************************)
(* State-machine model of scripts/auv_pf.py: the auv_pf node (Coordinator: *)
(* odom_callback / mbes_callback / resample / reassign_poses) and the      *)
(* worker processes (multiprocess_pf / predict / update) it talks to over  *)
(* multiprocessing queues.                                                 *)
(***************************************************************************)
EXTENDS Integers, Sequences, FiniteSets, TLC

\* ------------------------------------------------------------------ bounds
MaxPC == 3        \* largest ~particle_count tried
MaxNR == 2        \* largest ~number_of_threads tried
MaxOdom == 4      \* odometry messages delivered in one run
MaxStamp == 2     \* largest header stamp of a measurement (mbes ping)
MaxTime == 2      \* largest header stamp of an odometry message
MaxScore == 2     \* raw measurement scores are drawn from 0..MaxScore steps
MaxPoses == 3     \* longest pose_list handed to average_pose
MaxCoord == 1     \* pose coordinates are drawn from 0..MaxCoord + 4

\* ------------------------------------------------------- program constants
\* weights_array += 1.e-30: the unit in which weights are counted
FloorW == 1
\* a raw score step, in units of 1e-30
ScoreUnit == 1000

\* angles are counted in units of 1e-4 rad
\* 2*math.pi
TwoPi == 62832
\* math.pi/2 lies between 15707 and 15708 units: a whole number of units is
\* greater than math.pi/2 exactly when it is greater than HalfPi
HalfPi == 15707

None == "None"
\* self.time = None / self.old_time = None: no stamp seen yet
NoTime == -1

\* ------------------------------------------------------------------- state
VARIABLES
    pc,                        \* self.pc (particle count)
    nr_of_processes,           \* self.nr_of_processes
    init_error,                \* exception that ended __init__, or None
    processes,                 \* the Process objects built in __init__ (their args)
    started,                   \* TRUE once p.start() ran for all of them
    particles,                 \* the local array `particles` of __init__
    in_queues,                 \* self.in_queues
    out_queue,                 \* self.out_queue
    motion_prediction_params,  \* self.motion_prediction_params
    time,                      \* self.time
    old_time,                  \* self.old_time
    latest_mbes,               \* self.latest_mbes
    prev_mbes,                 \* self.prev_mbes
    co_at,                     \* where the odometry callback thread is
    odom_msg,                  \* odom_callback's argument
    q_input,                   \* odom_callback's local q_input
    put_idx,                   \* position of `for q in self.in_queues`
    counter,                   \* odom_callback's local counter
    weights,                   \* odom_callback's local weights / resample's argument
    ids,                       \* odom_callback's local ids
    wk_at,                     \* where each worker process is
    wk_particles,              \* each worker's own copy of its slice
    wk_out,                    \* the response a worker is about to put
    rs_sum,                    \* resample: weights.sum() taken at line 185
    rs_indices,                \* resample: indices
    rs_lost,                   \* resample: lost
    rs_dupes,                  \* resample: dupes
    rs_pre,                    \* the particle array as it was when reassign_poses was entered
    log,                       \* what was logged / raised, in order
    rviz_calls,                \* number of update_rviz invocations
    n_odom,                    \* odometry messages delivered so far
    step,                      \* filter steps started so far
    sent,                      \* per step, the q_input that was dispatched
    taken,                     \* the responses the Coordinator took, with the step that took them
    handed,                    \* per call of resample from line 170, the step and its arguments
    pose_list,                 \* average_pose's argument
    ap_at,                     \* where a call of average_pose is
    avg_pose,                  \* self.avg_pose
    avg_pub                    \* what was published on self.avg_pub, in order

conf_vars == <<pc, nr_of_processes, init_error, processes, started>>
queue_vars == <<in_queues, out_queue>>
cb_vars == <<motion_prediction_params, time, old_time, prev_mbes, co_at,
             odom_msg, q_input, put_idx, counter, weights, ids>>
wk_vars == <<wk_at, wk_particles, wk_out>>
rs_vars == <<rs_sum, rs_indices, rs_lost, rs_dupes, rs_pre, particles>>
hist_vars == <<log, rviz_calls, n_odom, step, sent, taken, handed>>
ap_vars == <<pose_list, ap_at, avg_pose, avg_pub>>
vars == <<conf_vars, queue_vars, cb_vars, latest_mbes, wk_vars, rs_vars, hist_vars,
          ap_vars>>

\* ----------------------------------------------------------------- helpers
Min(a, b) == IF a < b THEN a ELSE b

Range(s) == {s[i] : i \in 1..Len(s)}

\* Python's range(start, stop, step) for step > 0, as a sequence
PyRange(start, stop, stp) ==
    LET n == IF stop <= start THEN 0 ELSE ((stop - start) + stp - 1) \div stp
    IN  [k \in 1..n |-> start + (k - 1) * stp]

\* Python truth value of self.old_time (None and 0.0 are false)
Truthy(x) == x # NoTime /\ x # 0

\* multiprocessing.Queue(maxsize): maxsize <= 0 means no limit
QueueFull(q, maxsize) == maxsize > 0 /\ Len(q) >= maxsize

\* Particle(i, ...): id, pose (the initial draw and the motion samples applied
\* since), weight
Particle(i) == [id |-> i, pose |-> [init |-> i, applied |-> <<>>], w |-> 0]

\* ---------------------------------------------------------------- __init__
\* chunk_size = self.pc/self.nr_of_processes (Python 2 integer division)
ChunkSize(p, n) == p \div n

\* range(0, self.pc, chunk_size): only evaluated for chunk_size > 0
StartIds(p, n) == PyRange(0, p, ChunkSize(p, n))

\* lines 107-110
EndId(start_id, chunk_size, p) ==
    IF start_id + chunk_size > p THEN p ELSE start_id + chunk_size

\* the exception that ends __init__ in the loop of lines 106-112:
\* range() with step 0, or self.in_queues[queue_id] past the last queue
InitError(p, n) ==
    IF ChunkSize(p, n) = 0 THEN "ValueError"
    ELSE IF Len(StartIds(p, n)) > n THEN "IndexError"
    ELSE None

\* the Process objects appended to `processes` before the loop ended
BuildProcesses(p, n) ==
    IF ChunkSize(p, n) = 0 THEN <<>>
    ELSE LET starts == StartIds(p, n)
             built == Min(Len(starts), n)
         IN  [k \in 1..built |->
                 [start_id |-> starts[k],
                  end_id |-> EndId(starts[k], ChunkSize(p, n), p),
                  queue_id |-> k - 1]]

\* the worker processes that run
Workers == IF started THEN {processes[k].queue_id : k \in 1..Len(processes)} ELSE {}

ProcOf(w) == processes[w + 1]

\* particles[start_id:end_id], copied into the worker process
Slice(arr, start_id, end_id) ==
    [k \in 1..(end_id - start_id) |-> arr[start_id + k - 1]]

InitCommon(p, n) ==
    /\ pc = p
    /\ nr_of_processes = n
    /\ init_error = InitError(p, n)
    /\ processes = BuildProcesses(p, n)
    /\ started = (InitError(p, n) = None)
    /\ particles = [i \in 0..(p - 1) |-> Particle(i)]
    /\ in_queues = [q \in 0..(n - 1) |-> <<>>]
    /\ out_queue = <<>>
    /\ latest_mbes = [stamp |-> 0]
    /\ prev_mbes = [stamp |-> 0]
    /\ wk_at = [w \in Workers |-> "poll"]
    /\ wk_particles = [w \in Workers |->
                         Slice(particles, ProcOf(w).start_id, ProcOf(w).end_id)]
    /\ wk_out = [w \in Workers |-> None]
    /\ rs_sum = 0
    /\ rs_indices = <<>>
    /\ rs_lost = <<>>
    /\ rs_dupes = <<>>
    /\ rs_pre = None
    /\ log = <<>>
    /\ rviz_calls = 0
    /\ sent = <<>>
    /\ taken = <<>>
    /\ handed = <<>>

\* a number n/d kept exact
Ratio(n, d) == [num |-> n, den |-> d]

\* Quaternion(*quaternion_from_euler(roll, pitch, yaw)): a quaternion is known
\* by the angles it was built from
QuaternionFromEuler(roll, pitch, yaw) == [roll |-> roll, pitch |-> pitch, yaw |-> yaw]

\* line 92: self.avg_pose = PoseWithCovarianceStamped()
NewPoseWithCovarianceStamped ==
    [x |-> Ratio(0, 1), y |-> Ratio(0, 1), z |-> Ratio(0, 1),
     orientation |-> QuaternionFromEuler(Ratio(0, 1), Ratio(0, 1), Ratio(0, 1)),
     stamp |-> 0]

\* lines 92 and 126, and no call of average_pose under way
InitPublisher ==
    /\ avg_pose = NewPoseWithCovarianceStamped
    /\ avg_pub = <<>>

Init ==
    /\ \E p \in 1..MaxPC, n \in 1..MaxNR : InitCommon(p, n)
    /\ InitPublisher
    /\ pose_list = <<>>
    /\ ap_at = "idle"
    /\ motion_prediction_params = <<>>
    /\ time = NoTime
    /\ old_time = NoTime
    /\ co_at = "idle"
    /\ odom_msg = 0
    /\ q_input = None
    /\ put_idx = 0
    /\ counter = 0
    /\ weights = <<>>
    /\ ids = <<>>
    /\ n_odom = 0
    /\ step = 0

\* ------------------------------------------------------------ mbes_callback
\* lines 141-142; pings carry increasing stamps
MbesCallback ==
    /\ init_error = None
    /\ \E s \in (latest_mbes.stamp + 1)..MaxStamp : latest_mbes' = [stamp |-> s]
    /\ UNCHANGED <<conf_vars, ap_vars, queue_vars, cb_vars, wk_vars, rs_vars, hist_vars>>

\* ------------------------------------------------------------ odom_callback
\* line 146: if self.old_time and self.time > self.old_time
MotionGuard(t) == Truthy(old_time) /\ t > old_time

\* line 150 with >= in place of >: a ping already consumed starts a step again
NewMeasurement_NotStrict == latest_mbes.stamp >= prev_mbes.stamp

\* line 150: if self.latest_mbes.header.stamp > self.prev_mbes.header.stamp
NewMeasurement == latest_mbes.stamp > prev_mbes.stamp

\* pcloud2ranges(meas_mbes, odom.pose.pose): the ranges of that ping seen from
\* that odometry pose
Pcloud2ranges(meas_mbes, odom) == [mbes |-> meas_mbes.stamp, odom |-> odom]

\* update(self, meas_mbes, odom), lines 176-179
CoUpdate(meas_mbes, odom) == Pcloud2ranges(meas_mbes, odom)

\* the stamps the next odometry message can carry: the topic delivers them in
\* order, so never one older than the last
LaterStamps(last) == {t \in 0..MaxTime : t >= last}

\* lines 145-150 and, when no step is started, line 173
OdomCallback ==
    /\ init_error = None
    /\ co_at = "idle"
    /\ n_odom < MaxOdom
    /\ \E t \in LaterStamps(time) :
        /\ n_odom' = n_odom + 1
        /\ odom_msg' = n_odom + 1
        /\ time' = t
        /\ IF MotionGuard(t)
           THEN /\ motion_prediction_params' =
                      Append(motion_prediction_params,
                             [msg |-> n_odom + 1, stamp |-> t, dt |-> t - old_time])
                /\ IF NewMeasurement
                   THEN co_at' = "l152" /\ old_time' = old_time
                   ELSE co_at' = "idle" /\ old_time' = t
           ELSE /\ motion_prediction_params' = motion_prediction_params
                /\ co_at' = "idle"
                /\ old_time' = t
    /\ UNCHANGED <<conf_vars, ap_vars, queue_vars, prev_mbes, q_input, put_idx, counter,
                   weights, ids, latest_mbes, wk_vars, rs_vars, log, rviz_calls,
                   step, sent, taken, handed>>

\* line 152: self.prev_mbes = self.latest_mbes
RecordConsumed ==
    /\ co_at = "l152"
    /\ prev_mbes' = latest_mbes
    /\ co_at' = "l154"
    /\ UNCHANGED <<conf_vars, ap_vars, queue_vars, motion_prediction_params, time, old_time,
                   odom_msg, q_input, put_idx, counter, weights, ids, latest_mbes,
                   wk_vars, rs_vars, hist_vars>>

\* lines 154-155: q_input = (mbes_ranges, self.motion_prediction_params)
BuildInput ==
    /\ co_at = "l154"
    /\ step' = step + 1
    /\ q_input' = [mbes_ranges |-> CoUpdate(latest_mbes, odom_msg),
                   odom_list |-> motion_prediction_params,
                   step |-> step + 1]
    /\ put_idx' = 0
    /\ co_at' = "put"
    /\ UNCHANGED <<conf_vars, ap_vars, queue_vars, motion_prediction_params, time, old_time,
                   prev_mbes, odom_msg, counter, weights, ids, latest_mbes, wk_vars,
                   rs_vars, log, rviz_calls, n_odom, sent, taken, handed>>

\* lines 157-162: q.put(q_input) for the next queue (blocks while it is full),
\* and after the last one counter = 0, weights = ids = np.zeros(0)
PutTask ==
    /\ co_at = "put"
    /\ ~QueueFull(in_queues[put_idx], ChunkSize(pc, nr_of_processes))
    /\ in_queues' = [in_queues EXCEPT ![put_idx] = Append(@, q_input)]
    /\ sent' = IF put_idx = 0 THEN Append(sent, q_input) ELSE sent
    /\ put_idx' = put_idx + 1
    /\ IF put_idx + 1 = nr_of_processes
       THEN co_at' = "collect" /\ counter' = 0 /\ weights' = <<>> /\ ids' = <<>>
       ELSE UNCHANGED <<co_at, counter, weights, ids>>
    /\ UNCHANGED <<conf_vars, ap_vars, out_queue, motion_prediction_params, time, old_time,
                   prev_mbes, odom_msg, q_input, latest_mbes, wk_vars, rs_vars, log,
                   rviz_calls, n_odom, step, taken, handed>>

\* np.concatenate(a, b): the first argument is the sequence of arrays to join
\* and the second the axis.  Here the first argument is a 1-D float array (it
\* holds no arrays: np.zeros(0) is empty, and items of a 1-D array are 0-d
\* scalars) and the second an array or a list, so the call raises for every
\* input and joins nothing.
NpConcatenate(a, b) == [raised |-> TRUE, value |-> a]

\* lines 163-168, one pass of the while loop: self.out_queue.get() (blocks while
\* the queue is empty), then the two np.concatenate calls and counter += 1.
\* An exception leaves odom_callback (rospy logs it and keeps spinning), so
\* line 173 is not reached.  After the last pass line 170 calls resample.
Collect ==
    /\ co_at = "collect"
    /\ counter < nr_of_processes
    /\ out_queue # <<>>
    /\ LET output == Head(out_queue)
           w2 == NpConcatenate(weights, output.weights)
           i2 == NpConcatenate(ids, output.ids)
       IN  /\ out_queue' = Tail(out_queue)
           /\ taken' = Append(taken, [by_step |-> step, of_step |-> output.step,
                                      from |-> output.from])
           /\ IF w2.raised \/ i2.raised
              THEN /\ log' = Append(log, "np.concatenate raised")
                   /\ co_at' = "idle"
                   /\ UNCHANGED <<weights, ids, counter, handed>>
              ELSE /\ weights' = w2.value
                   /\ ids' = i2.value
                   /\ counter' = counter + 1
                   /\ co_at' = IF counter + 1 < nr_of_processes
                               THEN "collect" ELSE "l170"
                   /\ handed' = IF counter + 1 < nr_of_processes THEN handed
                                 ELSE Append(handed, [step |-> step,
                                                      weights |-> w2.value,
                                                      ids |-> i2.value])
                   /\ log' = log
    /\ UNCHANGED <<conf_vars, ap_vars, in_queues, motion_prediction_params, time, old_time,
                   prev_mbes, odom_msg, q_input, put_idx, latest_mbes, wk_vars,
                   rs_vars, rviz_calls, n_odom, step, sent>>

\* --------------------------------------------------------- multiprocess_pf
\* Particle.motion_pred(odom_t, dt): the pose moves by the sample (plus noise);
\* a pose is known by the samples applied to it, in order
MotionPred(particle, odom_elem) ==
    [particle EXCEPT !.pose.applied = Append(@, odom_elem)]

\* predict(odom_t, dt, nr_of_particles, particles), lines 296-298
Predict(odom_elem, nr_of_particles, parts) ==
    [k \in 1..Len(parts) |->
        IF k <= nr_of_particles THEN MotionPred(parts[k], odom_elem) ELSE parts[k]]

\* the loop of lines 290-293 run from the last sample to the first
RECURSIVE PredictAll_Reversed(_, _, _)
PredictAll_Reversed(odom_list, nr_of_particles, parts) ==
    IF odom_list = <<>> THEN parts
    ELSE Predict(Head(odom_list), nr_of_particles,
                 PredictAll_Reversed(Tail(odom_list), nr_of_particles, parts))

\* lines 290-293: for odom_elem in odom_list: predict(...)
RECURSIVE PredictAll(_, _, _)
PredictAll(odom_list, nr_of_particles, parts) ==
    IF odom_list = <<>> THEN parts
    ELSE PredictAll(Tail(odom_list), nr_of_particles,
                    Predict(Head(odom_list), nr_of_particles, parts))

\* the raw scores the measurement model can return
Scores == {k * ScoreUnit : k \in 0..MaxScore}

\* the measurement model: the likelihood of the ranges at a pose.  It lives
\* outside this file; a fixed function of the pose and the ranges with values
\* over all of Scores stands for it.
Score(pose, mbes_meas_ranges) ==
    ((pose.init + mbes_meas_ranges.mbes + Len(pose.applied)) % (MaxScore + 1))
        * ScoreUnit

\* Particle.meas_update(mbes_meas_ranges): sets the particle's weight to the
\* score of its pose against the ranges
MeasUpdate(particle, mbes_meas_ranges) ==
    [particle EXCEPT !.w = Score(particle.pose, mbes_meas_ranges)]

\* update(mbes_meas_ranges, particles, start_id, end_id), lines 300-313:
\* the particles after meas_update, and the returned (weights_array, ids)
WkUpdateParticles(mbes_meas_ranges, parts, start_id, end_id) ==
    [k \in 1..Len(parts) |->
        IF k <= end_id - start_id
        THEN MeasUpdate(parts[k], mbes_meas_ranges) ELSE parts[k]]

\* update with ids counted from 0 in every worker: range(0, end_id - start_id)
WkUpdate_IdsFromZero(parts, start_id, end_id) ==
    [weights |-> [k \in 1..(end_id - start_id) |-> parts[k].w + FloorW],
     ids |-> PyRange(0, end_id - start_id, 1)]

WkUpdate(parts, start_id, end_id) ==
    [weights |-> [k \in 1..(end_id - start_id) |-> parts[k].w + FloorW],
     ids |-> PyRange(start_id, end_id, 1)]

\* lines 285-293 and the call of update in line 294: the worker finds a task,
\* takes it, predicts with every motion sample and weights its particles
WorkerTake(w) ==
    /\ wk_at[w] = "poll"
    /\ in_queues[w] # <<>>
    /\ LET task == Head(in_queues[w])
           start_id == ProcOf(w).start_id
           end_id == ProcOf(w).end_id
           nr_of_particles == end_id - start_id
           moved == PredictAll(task.odom_list, nr_of_particles, wk_particles[w])
           scored == WkUpdateParticles(task.mbes_ranges, moved, start_id, end_id)
           out == WkUpdate(scored, start_id, end_id)
       IN  /\ wk_particles' = [wk_particles EXCEPT ![w] = scored]
           /\ wk_out' = [wk_out EXCEPT ![w] =
                           [weights |-> out.weights, ids |-> out.ids,
                            step |-> task.step, from |-> w]]
    /\ in_queues' = [in_queues EXCEPT ![w] = Tail(@)]
    /\ wk_at' = [wk_at EXCEPT ![w] = "put"]
    /\ UNCHANGED <<conf_vars, ap_vars, out_queue, cb_vars, latest_mbes, rs_vars, hist_vars>>

\* line 294: out_queue.put(...) (blocks while the queue holds self.pc items)
WorkerPut(w) ==
    /\ wk_at[w] = "put"
    /\ ~QueueFull(out_queue, pc)
    /\ out_queue' = Append(out_queue, wk_out[w])
    /\ wk_at' = [wk_at EXCEPT ![w] = "poll"]
    /\ UNCHANGED <<conf_vars, ap_vars, in_queues, cb_vars, latest_mbes, wk_particles, wk_out,
                   rs_vars, hist_vars>>

\* lines 289-294 when particles[i].meas_update raises inside update (line 305)
\* for the particle at position j: the task is taken and the motion samples are
\* applied, the particles before j are weighted, and the exception, which
\* nothing in multiprocess_pf catches, ends the worker process.  Nothing is
\* put on out_queue; wk_out keeps the step that failed.
WorkerScoreFails(w) ==
    /\ wk_at[w] = "poll"
    /\ in_queues[w] # <<>>
    /\ LET task == Head(in_queues[w])
           start_id == ProcOf(w).start_id
           end_id == ProcOf(w).end_id
           nr_of_particles == end_id - start_id
           moved == PredictAll(task.odom_list, nr_of_particles, wk_particles[w])
       IN  \E j \in 1..nr_of_particles :
             /\ wk_particles' = [wk_particles EXCEPT ![w] =
                    WkUpdateParticles(task.mbes_ranges, moved, start_id,
                                      start_id + j - 1)]
             /\ wk_out' = [wk_out EXCEPT ![w] =
                             [weights |-> <<>>, ids |-> <<>>,
                              step |-> task.step, from |-> w]]
    /\ in_queues' = [in_queues EXCEPT ![w] = Tail(@)]
    /\ wk_at' = [wk_at EXCEPT ![w] = "dead"]
    /\ UNCHANGED <<conf_vars, ap_vars, out_queue, cb_vars, latest_mbes, rs_vars, hist_vars>>

\* ---------------------------------------------------------------- resample
RECURSIVE SumSeq(_)
SumSeq(s) == IF s = <<>> THEN 0 ELSE Head(s) + SumSeq(Tail(s))

RECURSIVE SumSq(_)
SumSq(s) == IF s = <<>> THEN 0 ELSE Head(s) * Head(s) + SumSq(Tail(s))

Count(s, x) == Cardinality({i \in 1..Len(s) : s[i] = x})

\* After line 185 (weights /= weights.sum()) entry i of the array is ws[i] / s,
\* with s the sum taken at that line; for s = 0 every entry is nan.
\* line 190: weights.sum() == 0., on the divided array (nan == 0. is false)
DividedSumIsZero(ws, s) == s # 0 /\ SumSeq(ws) = 0

\* lines 189-197: N_eff < self.pc*0.5, with N_eff = self.pc when line 190 holds
\* and 1/np.sum(np.square(weights)) = s*s / SumSq(ws) otherwise (nan for s = 0,
\* and nan < x is false)
NeffLow(ws, s, p) ==
    IF DividedSumIsZero(ws, s) THEN 2 * p < p
    ELSE IF s = 0 THEN FALSE
    ELSE 2 * s * s < p * SumSq(ws)

\* residual_resample(weights): N ids, id i at least floor(N * w_i) times
ResidualResample(ws, s, p) ==
    {idx \in [1..p -> 0..(p - 1)] :
        \A i \in 0..(p - 1) : Count(idx, i) >= (p * ws[i + 1]) \div s}

\* line 201: keep = list(set(indices))
Keep(indices) == Range(indices)

\* line 202: lost = [i for i in range(self.pc) if i not in keep]
RECURSIVE Lost(_, _, _)
Lost(i, p, keep) ==
    IF i >= p THEN <<>>
    ELSE (IF i \in keep THEN <<>> ELSE <<i>>) \o Lost(i + 1, p, keep)

\* list.remove(x): drops the first occurrence of x
RECURSIVE ListRemove(_, _)
ListRemove(s, x) ==
    IF s = <<>> THEN <<>>
    ELSE IF Head(s) = x THEN Tail(s)
    ELSE <<Head(s)>> \o ListRemove(Tail(s), x)

\* lines 203-205: dupes = indices[:].tolist(); for i in keep: dupes.remove(i)
RECURSIVE Dupes(_, _)
Dupes(d, keep) ==
    IF keep = {} THEN d
    ELSE LET i == CHOOSE x \in keep : \A y \in keep : x <= y
         IN  Dupes(ListRemove(d, i), keep \ {i})

\* the attributes __init__ sets on self (lines 40-126); its array of Particle
\* objects is the local name `particles` (line 97), not an attribute
SelfAttrs == {"pc", "nr_of_processes", "out_queue", "in_queues",
              "motion_prediction_params", "time", "old_time", "pred_odom",
              "latest_mbes", "prev_mbes", "poses", "avg_pose", "pf_pub", "avg_pub"}

\* lines 220-226 for position i and on: the seven pose fields of lost[i] are
\* overwritten with those of dupes[i]
RECURSIVE CopyPoses(_, _, _, _)
CopyPoses(arr, lost, dupes, i) ==
    IF i > Len(lost) THEN arr
    ELSE CopyPoses([arr EXCEPT ![lost[i]].pose = arr[dupes[i]].pose],
                   lost, dupes, i + 1)

\* reassign_poses(self, lost, dupes), lines 217-226: the first pass of the loop
\* reads self.particles
ReassignPoses(arr, lost, dupes) ==
    IF lost = <<>> THEN [raised |-> FALSE, particles |-> arr]
    ELSE IF "particles" \notin SelfAttrs THEN [raised |-> TRUE, particles |-> arr]
    ELSE [raised |-> FALSE, particles |-> CopyPoses(arr, lost, dupes, 1)]

\* lines 210-211: self.particles[i].add_noise(...) for i in range(self.pc)
AddNoise(arr, p) ==
    IF p = 0 THEN [raised |-> FALSE, particles |-> arr]
    ELSE IF "particles" \notin SelfAttrs THEN [raised |-> TRUE, particles |-> arr]
    ELSE [raised |-> FALSE,
          particles |-> [i \in DOMAIN arr |->
                            [arr[i] EXCEPT !.pose.applied = Append(@, "noise")]]]

\* line 170 into resample, lines 183-195: weights /= weights.sum() and N_eff
Normalize ==
    /\ co_at = "l170"
    /\ rs_sum' = SumSeq(weights)
    /\ log' = log \o (IF DividedSumIsZero(weights, SumSeq(weights))
                      THEN <<"All weights zero!">> ELSE <<>>)
                  \o <<"N_eff">>
    /\ co_at' = "l197"
    /\ UNCHANGED <<conf_vars, ap_vars, queue_vars, motion_prediction_params, time, old_time,
                   prev_mbes, odom_msg, q_input, put_idx, counter, weights, ids,
                   latest_mbes, wk_vars, rs_indices, rs_lost, rs_dupes, rs_pre,
                   particles, rviz_calls, n_odom, step, sent, taken, handed>>

\* lines 197-205: the resampling branch up to the call of reassign_poses
ResampleIndices ==
    /\ co_at = "l197"
    /\ NeffLow(weights, rs_sum, pc)
    /\ \E indices \in ResidualResample(weights, rs_sum, pc) :
        /\ rs_indices' = indices
        /\ rs_lost' = Lost(0, pc, Keep(indices))
        /\ rs_dupes' = Dupes(indices, Keep(indices))
    /\ co_at' = "l207"
    /\ UNCHANGED <<conf_vars, ap_vars, queue_vars, motion_prediction_params, time, old_time,
                   prev_mbes, odom_msg, q_input, put_idx, counter, weights, ids,
                   latest_mbes, wk_vars, rs_sum, rs_pre, particles, hist_vars>>

\* lines 207-211: reassign_poses(lost, dupes), then add_noise on every particle.
\* An exception leaves resample and odom_callback (line 173 is not reached).
ReassignAndNoise ==
    /\ co_at = "l207"
    /\ rs_pre' = particles
    /\ LET r == ReassignPoses(particles, rs_lost, rs_dupes)
           a == AddNoise(r.particles, pc)
       IN  IF r.raised
           THEN /\ particles' = r.particles
                /\ log' = Append(log, "reassign_poses raised")
                /\ co_at' = "idle"
           ELSE /\ particles' = a.particles
                /\ log' = log \o <<"reassign_poses returned">>
                              \o (IF a.raised THEN <<"add_noise raised">>
                                  ELSE <<"resample returned">>)
                /\ co_at' = IF a.raised THEN "idle" ELSE "l172"
    /\ UNCHANGED <<conf_vars, ap_vars, queue_vars, motion_prediction_params, time, old_time,
                   prev_mbes, odom_msg, q_input, put_idx, counter, weights, ids,
                   latest_mbes, wk_vars, rs_sum, rs_indices, rs_lost, rs_dupes,
                   rviz_calls, n_odom, step, sent, taken, handed>>

\* lines 213-215: N_eff is not below self.pc*0.5
NoResample ==
    /\ co_at = "l197"
    /\ ~NeffLow(weights, rs_sum, pc)
    /\ log' = log \o <<"not resampling", "resample returned">>
    /\ co_at' = "l172"
    /\ UNCHANGED <<conf_vars, ap_vars, queue_vars, motion_prediction_params, time, old_time,
                   prev_mbes, odom_msg, q_input, put_idx, counter, weights, ids,
                   latest_mbes, wk_vars, rs_vars, rviz_calls, n_odom, step, sent,
                   taken, handed>>

\* the calls of update_rviz that odom_callback makes after resample: line 172
\* is a comment
RvizCallsAfterStep == 0

\* lines 172-173: self.old_time = self.time, and odom_callback returns
CallbackTail ==
    /\ co_at = "l172"
    /\ rviz_calls' = rviz_calls + RvizCallsAfterStep
    /\ old_time' = time
    /\ log' = Append(log, "odom_callback returned")
    /\ co_at' = "idle"
    /\ UNCHANGED <<conf_vars, ap_vars, queue_vars, motion_prediction_params, time,
                   prev_mbes, odom_msg, q_input, put_idx, counter, weights, ids,
                   latest_mbes, wk_vars, rs_vars, n_odom, step, sent, taken, handed>>

Next ==
    \/ MbesCallback
    \/ OdomCallback
    \/ RecordConsumed
    \/ BuildInput
    \/ PutTask
    \/ Collect
    \/ \E w \in Workers : WorkerTake(w)
    \/ \E w \in Workers : WorkerPut(w)

Spec == Init /\ [][Next]_vars

\* ------------------------------------------------------------ average_pose
\* the yaws tried: both signs on both sides of pi/2, and 0
YawValues == {-30000, -10000, 0, 10000, 30000}

\* the pose vectors [x, y, z, roll, pitch, yaw] tried
PoseVecs == {<<v, v + 1, v + 2, v + 3, v + 4, yaw>> :
                v \in 0..MaxCoord, yaw \in YawValues}

Abs(x) == IF x < 0 THEN 0 - x ELSE x

\* poses_array[:, c]
Column(poses_array, c) == [k \in 1..Len(poses_array) |-> poses_array[k][c]]

\* ndarray.mean() of a 1-D array
Mean(arr) == Ratio(SumSeq(arr), Len(arr))

\* np.abs(yaws).max()
MaxAbs(yaws) ==
    CHOOSE m \in {Abs(yaws[k]) : k \in 1..Len(yaws)} :
        \A k \in 1..Len(yaws) : Abs(yaws[k]) <= m

\* line 258: np.abs(yaws).min()
MinAbs(yaws) ==
    CHOOSE m \in {Abs(yaws[k]) : k \in 1..Len(yaws)} :
        \A k \in 1..Len(yaws) : m <= Abs(yaws[k])

\* line 259: yaws[yaws < 0] += 2*math.pi
ShiftNegative(yaws) ==
    [k \in 1..Len(yaws) |-> IF yaws[k] < 0 THEN yaws[k] + TwoPi ELSE yaws[k]]

\* lines 257-260
AverageYaw(yaws) ==
    Mean(IF MinAbs(yaws) > HalfPi THEN ShiftNegative(yaws) ELSE yaws)

\* average_pose(self, pose_list), lines 238-264.  yaws is a view of
\* poses_array, which np.array copied from pose_list, and ave_pose is taken
\* before the yaws are shifted: pose_list and the other means keep their values.
AveragePose ==
    /\ ap_at = "called"
    /\ LET poses_array == pose_list
           ave_pose == [c \in 1..5 |-> Mean(Column(poses_array, c))]
           roll == ave_pose[4]
           pitch == ave_pose[5]
           yaw == AverageYaw(Column(poses_array, 6))
           msg == [x |-> ave_pose[1], y |-> ave_pose[2], z |-> ave_pose[3],
                   orientation |-> QuaternionFromEuler(roll, pitch, yaw),
                   stamp |-> Len(avg_pub) + 1]
       IN  /\ avg_pose' = msg
           /\ avg_pub' = Append(avg_pub, msg)
    /\ ap_at' = "returned"
    /\ UNCHANGED <<conf_vars, queue_vars, cb_vars, latest_mbes, wk_vars, rs_vars,
                   hist_vars, pose_list>>

\* average_pose called with a list of one pose vector per particle
InitAverage ==
    /\ \E n \in 1..MaxPoses :
          /\ pose_list \in [1..n -> PoseVecs]
          /\ InitCommon(n, 1)
    /\ InitPublisher
    /\ ap_at = "called"
    /\ motion_prediction_params = <<>>
    /\ time = NoTime
    /\ old_time = NoTime
    /\ co_at = "idle"
    /\ odom_msg = 0
    /\ q_input = None
    /\ put_idx = 0
    /\ counter = 0
    /\ weights = <<>>
    /\ ids = <<>>
    /\ n_odom = 0
    /\ step = 0

NextAverage == AveragePose

SpecAverage == InitAverage /\ [][NextAverage]_vars

\* The node when the measurement model can fail inside a worker.
NextFail ==
    \/ Next
    \/ \E w \in Workers : WorkerScoreFails(w)

SpecFail == Init /\ [][NextFail]_vars

\* the weights resample is defined on: what the workers report (a score plus
\* the floor), and 0, the value line 190 tests for
HandedWeights == {0} \cup {sc + FloorW : sc \in Scores}

\* The resampling engine on its own: the Coordinator is at line 170 of a step,
\* holding a weight vector with one entry per particle.
InitResample ==
    /\ \E p \in 1..MaxPC, n \in 1..MaxNR :
          InitError(p, n) = None /\ InitCommon(p, n)
    /\ InitPublisher
    /\ pose_list = <<>>
    /\ ap_at = "idle"
    /\ weights \in [1..pc -> HandedWeights]
    /\ ids = PyRange(0, pc, 1)
    /\ counter = nr_of_processes
    /\ put_idx = nr_of_processes
    /\ co_at = "l170"
    /\ \E t0 \in 1..(MaxTime - 1), t1 \in 1..MaxTime :
          /\ t1 > t0
          /\ old_time = t0
          /\ time = t1
          /\ motion_prediction_params = <<[msg |-> 2, stamp |-> t1, dt |-> t1 - t0]>>
    /\ odom_msg = 2
    /\ q_input = None
    /\ n_odom = 2
    /\ step = 1

NextResample ==
    \/ Normalize
    \/ ResampleIndices
    \/ ReassignAndNoise
    \/ NoResample
    \/ CallbackTail

SpecResample == InitResample /\ [][NextResample]_vars

\* ================================================================== claims
StepLabels == {"l152", "l154", "put", "collect"}

NoDuplicates(s) == \A i, j \in 1..Len(s) : i # j => s[i] # s[j]

\* C1: every (motion_sample, dt) pair is dispatched in exactly one filter
\* step: no two steps send the same sample, and no particle has the same
\* sample applied to it twice.
C1_MotionSampleDispatchedOnce ==
    /\ \A i, j \in 1..Len(sent) :
          i < j => Range(sent[i].odom_list) \cap Range(sent[j].odom_list) = {}
    /\ \A w \in Workers : \A k \in 1..Len(wk_particles[w]) :
          NoDuplicates(wk_particles[w][k].pose.applied)

\* the callback of a started step has ended (returned or raised)
StepEnded == step >= 1 /\ co_at = "idle"

\* C2: in every filter step the Coordinator hands resample a weight vector of
\* length N holding exactly one weight for each particle id of [0, N).
C2_FullWeightVectorHanded ==
    StepEnded =>
        /\ Len(handed) = step
        /\ Len(handed[step].weights) = pc
        /\ Len(handed[step].ids) = pc
        /\ \A i \in 0..(pc - 1) : Count(handed[step].ids, i) = 1

\* the weight the owning worker computed for particle id i (its floor added)
ComputedWeight(i) ==
    LET w == CHOOSE x \in Workers :
                 ProcOf(x).start_id <= i /\ i < ProcOf(x).end_id
    IN  wk_particles[w][i - ProcOf(w).start_id + 1].w + FloorW

\* C3: whatever the arrival order of the responses, position i of the weight
\* vector passed to resample holds the weight computed for particle id i.
C3_WeightsInIdOrder ==
    StepEnded =>
        /\ Len(handed) = step
        /\ \A i \in 0..(pc - 1) :
              /\ i + 1 <= Len(handed[step].weights)
              /\ handed[step].weights[i + 1] = ComputedWeight(i)

\* C4: resample is started only after the step took exactly worker_count
\* responses, one from each worker, all produced from the task dispatched in
\* that same step.
C4_FullBarrierSameStep ==
    /\ \A k \in 1..Len(taken) : taken[k].of_step = taken[k].by_step
    /\ \A h \in 1..Len(handed) :
          LET mine == {k \in 1..Len(taken) : taken[k].by_step = handed[h].step}
          IN  /\ Cardinality(mine) = nr_of_processes
              /\ {taken[k].from : k \in mine} = 0..(nr_of_processes - 1)

\* C5: for every N >= 1 and worker_count >= 1 initialization starts exactly
\* worker_count worker processes, each bound to its own inbound queue.
C5_WorkerCountStarted ==
    /\ started
    /\ Cardinality(Workers) = nr_of_processes
    /\ Len(processes) = nr_of_processes
    /\ \A k \in 1..Len(processes) : processes[k].queue_id = k - 1

\* C6: the [start_id, end_id) ranges of the workers are pairwise disjoint,
\* their union is [0, N), and their sizes differ by at most N % worker_count.
C6_PartitionTiling ==
    LET ids_of(k) == {i \in 0..(pc - 1) :
                         processes[k].start_id <= i /\ i < processes[k].end_id}
        size(k) == processes[k].end_id - processes[k].start_id
        P == 1..Len(processes)
    IN  /\ \A k, m \in P : k # m => ids_of(k) \cap ids_of(m) = {}
        /\ UNION {ids_of(k) : k \in P} = 0..(pc - 1)
        /\ \A k, m \in P : size(k) - size(m) <= pc % nr_of_processes

\* C7: a filter step is started only when the latest measurement's stamp is
\* strictly newer than the stamp of the previously consumed measurement and
\* the pending motion queue holds a sample; a step is entered only at that
\* start, and tasks reach the workers' queues only inside a step.
C7_StepStartGuarded ==
    [][ /\ (co_at = "idle" /\ co_at' # "idle") =>
              /\ latest_mbes.stamp > prev_mbes.stamp
              /\ motion_prediction_params' # <<>>
              /\ co_at' = "l152"
        /\ (co_at' \in StepLabels /\ co_at \notin StepLabels) => co_at = "idle"
        /\ (\E q \in DOMAIN in_queues : Len(in_queues'[q]) > Len(in_queues[q])) =>
              /\ co_at = "put"
              /\ q_input.odom_list # <<>>
              /\ \A q \in DOMAIN in_queues :
                    Len(in_queues'[q]) > Len(in_queues[q]) =>
                        in_queues'[q] = Append(in_queues[q], q_input)
      ]_vars

\* C7 witness: a step was started on a new measurement and dispatched to every
\* worker, after an odometry update that started none.
C7_Witness ==
    /\ co_at = "collect"
    /\ step = 1
    /\ n_odom >= 2
    /\ Len(sent) = 1
    /\ sent[1].odom_list # <<>>

\* C8: under any interleaving of mbes_callback with odom_callback no
\* measurement is dispatched to the workers in more than one filter step.
C8_MeasurementDispatchedOnce ==
    \A i, j \in 1..Len(sent) :
        i < j => sent[i].mbes_ranges.mbes # sent[j].mbes_ranges.mbes

InLog(entry) == \E k \in 1..Len(log) : log[k] = entry

\* C9: a filter step that completed its degeneracy check / resampling is
\* followed, before the Coordinator accepts the next update, by one call of
\* update_rviz (the particle poses and the aggregated pose are published).
C9_StepPublishes ==
    (co_at = "idle" /\ InLog("resample returned")) => rviz_calls = 1

\* C10: after reassign_poses(lost, dupes) the pose of particle lost[i] equals
\* the pose particle dupes[i] had when the call began, and no kept particle
\* has a changed pose.
C10_ReassignCopiesPoses ==
    (InLog("reassign_poses raised") \/ InLog("reassign_poses returned")) =>
        /\ \A i \in 1..Len(rs_lost) :
              particles[rs_lost[i]].pose = rs_pre[rs_dupes[i]].pose
        /\ \A k \in Keep(rs_indices) : particles[k].pose = rs_pre[k].pose

\* resample was entered at line 170 and odom_callback has ended since
ResampleEnded == co_at = "idle" /\ InLog("N_eff")

\* reassign_poses was called and has ended (returned or raised)
ReassignEnded == InLog("reassign_poses raised") \/ InLog("reassign_poses returned")

\* C11: keep and lost partition [0, N), dupes has len(lost) entries, all of
\* them in keep, and after the reassignment the number of particles holding
\* the pre-resampling pose of id i is the multiplicity of i in indices.
C11_ReassignKeepsMultiplicities ==
    /\ rs_indices # <<>> =>
          /\ Keep(rs_indices) \cup Range(rs_lost) = 0..(pc - 1)
          /\ Keep(rs_indices) \cap Range(rs_lost) = {}
          /\ Len(rs_dupes) = Len(rs_lost)
          /\ Range(rs_dupes) \subseteq Keep(rs_indices)
    /\ ReassignEnded =>
          \A i \in 0..(pc - 1) :
              Cardinality({j \in 0..(pc - 1) : particles[j].pose = rs_pre[i].pose})
                  = Count(rs_indices, i)

\* every particle got the injected noise of lines 210-211
NoiseInjected ==
    \A i \in 0..(pc - 1) :
        \E k \in 1..Len(particles[i].pose.applied) :
            particles[i].pose.applied[k] = "noise"

\* C12: resampling (pose reassignment plus noise injection) is performed if
\* and only if N_eff < 0.5 * N, N_eff = 1 / sum(w_i^2) of the normalized
\* weights; with N_eff >= 0.5 * N every pose is left unchanged.
C12_ResampleIffNeffLow ==
    (ResampleEnded /\ SumSeq(weights) > 0) =>
        LET s == SumSeq(weights)
            low == 2 * s * s < pc * SumSq(weights)
        IN  /\ low <=> (InLog("reassign_poses returned") /\ NoiseInjected)
            /\ ~low => particles = [i \in 0..(pc - 1) |-> Particle(i)]

\* C14: with a weight vector of sum 0 the engine reports the degenerate
\* weights, does not resample, changes no pose, and the callback goes on.
C14_ZeroSumReported ==
    (ResampleEnded /\ SumSeq(weights) = 0) =>
        /\ InLog("All weights zero!")
        /\ rs_indices = <<>>
        /\ particles = [i \in 0..(pc - 1) |-> Particle(i)]
        /\ InLog("odom_callback returned")

\* the pose the worker that owns particle id i holds for it
WorkerPose(i) ==
    LET w == CHOOSE x \in Workers :
                 ProcOf(x).start_id <= i /\ i < ProcOf(x).end_id
    IN  wk_particles[w][i - ProcOf(w).start_id + 1].pose

\* C18: after a step whose resampling reassigned poses, the pose the owning
\* worker holds for each lost particle is the pose copied from its dupe (the
\* injected noise aside).
C18_ReassignReachesWorkers ==
    ReassignEnded =>
        \A i \in 1..Len(rs_lost) :
            /\ WorkerPose(rs_lost[i]).init = rs_pre[rs_dupes[i]].pose.init
            /\ \A k \in 1..Len(rs_pre[rs_dupes[i]].pose.applied) :
                  /\ k <= Len(WorkerPose(rs_lost[i]).applied)
                  /\ WorkerPose(rs_lost[i]).applied[k]
                        = rs_pre[rs_dupes[i]].pose.applied[k]

\* the Coordinator waits at out_queue.get() and nothing can ever put a response
BlockedForever ==
    /\ co_at = "collect"
    /\ out_queue = <<>>
    /\ \A w \in Workers :
          wk_at[w] = "dead" \/ (wk_at[w] = "poll" /\ in_queues[w] = <<>>)

\* C13: a worker whose measurement scoring failed in a step has emitted a
\* result for that step (its failed-step result), no resampling is done on the
\* step, and the Coordinator is not left blocked at the barrier for ever.
C13_ScoringFailureReported ==
    /\ \A w \in Workers :
          wk_at[w] = "dead" =>
              /\ \/ \E k \in 1..Len(out_queue) :
                       out_queue[k].from = w /\ out_queue[k].step = wk_out[w].step
                 \/ \E k \in 1..Len(taken) :
                       taken[k].from = w /\ taken[k].of_step = wk_out[w].step
              /\ \A h \in 1..Len(handed) : handed[h].step # wk_out[w].step
    /\ ~BlockedForever

\* the motion samples of a list are in the order the Coordinator appended them
InArrivalOrder(odom_list) ==
    \A a, b \in 1..Len(odom_list) : a < b => odom_list[a].msg < odom_list[b].msg

\* C15: when a worker processes a task, every particle of its partition gets
\* the task's motion samples appended to its pose in the order the Coordinator
\* accumulated them (earliest first), and the weight of each particle, and the
\* weight reported for it, is the score of the pose after all of the samples.
C15_MotionInOrderThenWeights ==
    [][\A w \in Workers :
          (wk_at[w] = "poll" /\ wk_at'[w] = "put") =>
              LET task == Head(in_queues[w])
              IN  /\ InArrivalOrder(task.odom_list)
                  /\ Len(wk_particles'[w]) = ProcOf(w).end_id - ProcOf(w).start_id
                  /\ \A k \in 1..Len(wk_particles[w]) :
                        LET before == wk_particles[w][k]
                            after == wk_particles'[w][k]
                        IN  /\ after.pose.init = before.pose.init
                            /\ after.pose.applied =
                                   before.pose.applied \o task.odom_list
                            /\ after.w = Score(after.pose, task.mbes_ranges)
                            /\ wk_out'[w].weights[k] = after.w + FloorW]_vars

\* a worker has processed a task of two or more motion samples for a partition
\* of two or more particles: the last two samples applied are in arrival order
C15_Witness ==
    \E w \in Workers :
        /\ wk_at[w] = "put"
        /\ Len(wk_particles[w]) >= 2
        /\ \A k \in 1..Len(wk_particles[w]) :
              LET applied == wk_particles[w][k].pose.applied
              IN  /\ Len(applied) >= 2
                  /\ applied[Len(applied) - 1].msg < applied[Len(applied)].msg

\* the number of entries of arr below 0
Negatives(arr) == Cardinality({k \in 1..Len(arr) : arr[k] < 0})

\* C16: the published x, y, z, roll and pitch are the arithmetic means of the
\* pose vectors; the yaw is the mean of the yaws with every negative yaw raised
\* by 2*pi when the absolute yaw of every particle exceeds pi/2 (and then lies
\* between pi/2 and 3*pi/2, away from 0), and the mean of the yaws as they are
\* otherwise.
C16_CircularMeanYaw ==
    ap_at = "returned" =>
        LET n == Len(pose_list)
            yaws == Column(pose_list, 6)
            straddle == \A k \in 1..n : Abs(yaws[k]) > HalfPi
            q == avg_pose.orientation
        IN  /\ avg_pose.x = Ratio(SumSeq(Column(pose_list, 1)), n)
            /\ avg_pose.y = Ratio(SumSeq(Column(pose_list, 2)), n)
            /\ avg_pose.z = Ratio(SumSeq(Column(pose_list, 3)), n)
            /\ q.roll = Ratio(SumSeq(Column(pose_list, 4)), n)
            /\ q.pitch = Ratio(SumSeq(Column(pose_list, 5)), n)
            /\ q.yaw.den = n
            /\ straddle =>
                  /\ q.yaw.num = SumSeq(yaws) + TwoPi * Negatives(yaws)
                  /\ q.yaw.num > HalfPi * n
                  /\ q.yaw.num < (TwoPi - HalfPi) * n
            /\ ~straddle => q.yaw.num = SumSeq(yaws)
            /\ avg_pub = <<avg_pose>>

\* yaws 3.0 and -3.0 were averaged to 3.1416
C16_Witness ==
    /\ ap_at = "returned"
    /\ Column(pose_list, 6) = <<30000, -30000>>
    /\ avg_pose.orientation.yaw = Ratio(2 * 31416, 2)

\* the tasks put on worker w's inbound queue so far: one per step dispatched,
\* the current one counted once the for loop of line 157 has passed queue w
TasksPut(w) ==
    Len(sent) - (IF co_at = "put" /\ put_idx >= 1 /\ w >= put_idx THEN 1 ELSE 0)

\* the responses of worker w that reached out_queue so far
ResponsesPut(w) ==
    Cardinality({k \in 1..Len(out_queue) : out_queue[k].from = w})
        + Cardinality({k \in 1..Len(taken) : taken[k].from = w})

\* the response r lists the ids start_id .. end_id - 1 of worker w in ascending
\* order, with as many weights
WellFormedResponse(r, w) ==
    LET start_id == ProcOf(w).start_id
        end_id == ProcOf(w).end_id
    IN  /\ Len(r.ids) = end_id - start_id
        /\ Len(r.weights) = Len(r.ids)
        /\ \A k \in 1..Len(r.ids) : r.ids[k] = start_id + k - 1

\* C17: the responses a worker has put, plus the one it is about to put, are
\* as many as the tasks it has taken (one response per task, none without a
\* task); every response lists the worker's ids start_id .. end_id - 1 in
\* ascending order with a weight for each, and the weight at position k of a
\* response about to be put is the weight (with its floor of 1e-30) of the
\* worker's particle at position k.
C17_OneAlignedResponsePerTask ==
    /\ \A w \in Workers :
          /\ ResponsesPut(w) + (IF wk_at[w] = "put" THEN 1 ELSE 0)
                 = TasksPut(w) - Len(in_queues[w])
          /\ wk_at[w] = "put" =>
                /\ WellFormedResponse(wk_out[w], w)
                /\ wk_out[w].from = w
                /\ \A k \in 1..Len(wk_out[w].weights) :
                      wk_out[w].weights[k] = wk_particles[w][k].w + FloorW
    /\ \A k \in 1..Len(out_queue) :
          WellFormedResponse(out_queue[k], out_queue[k].from)

\* a response of the second worker, whose ids do not start at 0, is on out_queue
C17_Witness ==
    \E k \in 1..Len(out_queue) :
        /\ out_queue[k].from = 1
        /\ out_queue[k].ids # <<>>
        /\ out_queue[k].ids[1] > 0

\* every response on out_queue was produced from the task of the current step
AllOfCurrentStep == \A k \in 1..Len(out_queue) : out_queue[k].step = step

\* the Coordinator is about to put the first task of a step (line 157)
DispatchBegins == co_at = "put" /\ put_idx = 0

\* C19: every inbound queue holds at most one task, out_queue holds at most
\* worker_count responses and all of them belong to the current step, and
\* when the Coordinator begins to dispatch a step every inbound queue and
\* out_queue are empty.
C19_QueuesBoundedAndFresh ==
    /\ \A q \in DOMAIN in_queues : Len(in_queues[q]) <= 1
    /\ Len(out_queue) <= nr_of_processes
    /\ AllOfCurrentStep
    /\ DispatchBegins =>
          /\ \A q \in DOMAIN in_queues : in_queues[q] = <<>>
          /\ out_queue = <<>>

\* C20: a step that has ended (the Coordinator accepts motion updates again)
\* took worker_count responses at its barrier and reached its resampling
\* decision.
C20_StepRunsToCompletion ==
    StepEnded =>
        /\ Cardinality({k \in 1..Len(taken) : taken[k].by_step = step})
              = nr_of_processes
        /\ InLog("N_eff")
====
